---- MODULE Spec2Model ----
(***************************************************************************)
(* Model of salt/client/ssh/client.py: SSHClient.                          *)
(*                                                                         *)
(* Python values are tagged records of one shape, [t, n, s, l, d]:         *)
(*   t  the Python type ("none", "bool", "int", "str", "list", "dict",     *)
(*      "ref"), n the number of an int / bool (0, 1) or the address of a   *)
(*      ref, s the characters of a str (a sequence of one-character        *)
(*      strings), l the items of a list or tuple, d the entries of a dict. *)
(* A Python dict with string keys is a function from its keys to values.   *)
(***************************************************************************)
EXTENDS Integers, Sequences, FiniteSets, TLC

(* ---------------------------------------------------------------------- *)
(* Python values                                                           *)
(* ---------------------------------------------------------------------- *)
PyNone == [t |-> "none", n |-> 0, s |-> <<>>, l |-> <<>>, d |-> <<>>]
PyBool(b) == [t |-> "bool", n |-> IF b THEN 1 ELSE 0, s |-> <<>>, l |-> <<>>, d |-> <<>>]
PyInt(i) == [t |-> "int", n |-> i, s |-> <<>>, l |-> <<>>, d |-> <<>>]
PyStr(chars) == [t |-> "str", n |-> 0, s |-> chars, l |-> <<>>, d |-> <<>>]
PyList(items) == [t |-> "list", n |-> 0, s |-> <<>>, l |-> items, d |-> <<>>]
\* a dict held by value (never shared, never mutated in place)
PyDict(map) == [t |-> "dict", n |-> 0, s |-> <<>>, l |-> <<>>, d |-> map]
\* a reference to the mutable dict at an address of the heap
PyRef(addr) == [t |-> "ref", n |-> addr, s |-> <<>>, l |-> <<>>, d |-> <<>>]

EmptyMap == <<>>
Put(m, k, v) == [x \in (DOMAIN m) \cup {k} |-> IF x = k THEN v ELSE m[x]]
\* dict.update(other): every key of other replaces the whole value of its key
Update(m, other) ==
    [x \in (DOMAIN m) \cup (DOMAIN other) |-> IF x \in DOMAIN other THEN other[x] ELSE m[x]]
Without(m, ks) == [x \in (DOMAIN m) \ ks |-> m[x]]

(* ---------------------------------------------------------------------- *)
(* Strings used by the model, as character sequences                       *)
(* ---------------------------------------------------------------------- *)
ProxyCommand == <<"P","r","o","x","y","C","o","m","m","a","n","d">>
s_empty == <<>>
s_22 == <<"2","2">>
s_abc == <<"a","b","c">>
s_root == <<"r","o","o","t">>
s_False == <<"F","a","l","s","e">>
s_True == <<"T","r","u","e">>
s_None == <<"N","o","n","e">>
s_x == <<"x">>
s_j1 == <<"j","1">>
s_ProxyEq == ProxyCommand \o <<"=","e">>
s_oProxy == <<"-","o">> \o ProxyCommand \o <<"=","e","v","i","l">>
s_oCompression == <<"-","o","C","o","m","p","r","e","s","s","i","o","n","=","y","e","s">>

Digits == <<"0","1","2","3","4","5","6","7","8","9">>
DigitSet == {Digits[i] : i \in 1..10}
DigitVal(c) == (CHOOSE i \in 1..10 : Digits[i] = c) - 1

\* str.find(sub): the lowest index at which sub occurs, or -1
Find(str, sub) ==
    LET idxs == {i \in 0..(Len(str) - Len(sub)) : SubSeq(str, i + 1, i + Len(sub)) = sub}
    IN IF idxs = {} THEN -1 ELSE CHOOSE i \in idxs : \A j \in idxs : i <= j

RECURSIVE NatToStr(_)
NatToStr(i) == IF i < 10 THEN <<Digits[i + 1]>> ELSE NatToStr(i \div 10) \o <<Digits[(i % 10) + 1]>>
\* str(i) for an int
IntToStr(i) == IF i < 0 THEN <<"-">> \o NatToStr(0 - i) ELSE NatToStr(i)

RECURSIVE DigitsToNat(_)
DigitsToNat(chars) ==
    IF chars = <<>> THEN 0
    ELSE 10 * DigitsToNat(SubSeq(chars, 1, Len(chars) - 1)) + DigitVal(chars[Len(chars)])

AllDigits(chars) == chars # <<>> /\ \A i \in 1..Len(chars) : chars[i] \in DigitSet
\* int(str): an optional sign and decimal digits, anything else is a ValueError
\* (the strings of the model hold no white space and no underscore)
IntLiteral(chars) ==
    IF chars # <<>> /\ chars[1] \in {"-", "+"} THEN AllDigits(Tail(chars)) ELSE AllDigits(chars)
ParseInt(chars) ==
    IF chars[1] = "-" THEN 0 - DigitsToNat(Tail(chars))
    ELSE IF chars[1] = "+" THEN DigitsToNat(Tail(chars))
    ELSE DigitsToNat(chars)

RECURSIVE Repr(_)
RECURSIVE ReprItems(_)
\* repr(v), as str() of a list shows its items
Repr(v) ==
    CASE v.t = "none" -> s_None
      [] v.t = "bool" -> IF v.n = 1 THEN s_True ELSE s_False
      [] v.t = "int" -> IntToStr(v.n)
      [] v.t = "str" -> <<"'">> \o v.s \o <<"'">>
      [] v.t = "list" -> <<"[">> \o ReprItems(v.l) \o <<"]">>
ReprItems(items) ==
    IF items = <<>> THEN <<>>
    ELSE IF Len(items) = 1 THEN Repr(items[1])
    ELSE Repr(items[1]) \o <<",", " ">> \o ReprItems(Tail(items))

(* ---------------------------------------------------------------------- *)
(* The constructors sanitize_kwargs casts with: kind(kwargs[name])         *)
(* ---------------------------------------------------------------------- *)
Cast(err, val) == [err |-> err, val |-> val]

\* str(v)
CastStr(v) == Cast("none", PyStr(IF v.t = "str" THEN v.s ELSE Repr(v)))
\* int(v)
CastInt(v) ==
    CASE v.t \in {"int", "bool"} -> Cast("none", PyInt(v.n))
      [] v.t = "str" -> IF IntLiteral(v.s) THEN Cast("none", PyInt(ParseInt(v.s)))
                        ELSE Cast("ValueError", PyNone)
      [] OTHER -> Cast("TypeError", PyNone)
\* bool(v): the truth value
CastBool(v) ==
    CASE v.t = "none" -> Cast("none", PyBool(FALSE))
      [] v.t \in {"int", "bool"} -> Cast("none", PyBool(v.n # 0))
      [] v.t = "str" -> Cast("none", PyBool(v.s # <<>>))
      [] v.t = "list" -> Cast("none", PyBool(v.l # <<>>))
\* list(v): the items of an iterable, a TypeError for anything else
CastList(v) ==
    CASE v.t = "list" -> Cast("none", PyList(v.l))
      [] v.t = "str" -> Cast("none", PyList([i \in 1..Len(v.s) |-> PyStr(<<v.s[i]>>)]))
      [] OTHER -> Cast("TypeError", PyNone)
Coerce(kind, v) ==
    CASE kind = "str" -> CastStr(v)
      [] kind = "int" -> CastInt(v)
      [] kind = "bool" -> CastBool(v)
      [] kind = "list" -> CastList(v)

(* ---------------------------------------------------------------------- *)
(* SSHClient.sanitize_kwargs                                               *)
(* ---------------------------------------------------------------------- *)
roster_vals == <<
    <<"host", "str">>,
    <<"ssh_user", "str">>,
    <<"ssh_passwd", "str">>,
    <<"ssh_port", "int">>,
    <<"ssh_sudo", "bool">>,
    <<"ssh_sudo_user", "str">>,
    <<"ssh_priv", "str">>,
    <<"ssh_priv_passwd", "str">>,
    <<"ssh_identities_only", "bool">>,
    <<"ssh_remote_port_forwards", "str">>,
    <<"ssh_options", "list">>,
    <<"roster_file", "str">>,
    <<"rosters", "list">>,
    <<"ignore_host_keys", "bool">>,
    <<"raw_shell", "bool">> >>

AllowList == {roster_vals[i][1] : i \in 1..Len(roster_vals)}

\* a call's outcome: the value returned, or the exception that left it
Returned(val) == [raised |-> "none", ret |-> val]
Raised(exc) == [raised |-> exc, ret |-> EmptyMap]

UnsafeFindGt0(chars) == Find(chars, ProxyCommand) > 0
\* val.find('ProxyCommand') != -1
Unsafe(chars) == Find(chars, ProxyCommand) # -1

RECURSIVE FilterItemsSkipping(_, _)
\* the loop as it would run if it removed the offending item from the list it
\* iterates over: the item after a removed one is never looked at
FilterItemsSkipping(items, sane_val) ==
    IF items = <<>> THEN Cast("none", PyList(sane_val))
    ELSE IF items[1].t # "str" THEN Cast("AttributeError", PyNone)
    ELSE IF Unsafe(items[1].s)
         THEN IF Len(items) = 1 THEN Cast("none", PyList(sane_val))
              ELSE FilterItemsSkipping(Tail(Tail(items)), Append(sane_val, items[2]))
    ELSE FilterItemsSkipping(Tail(items), Append(sane_val, items[1]))

RECURSIVE FilterItems(_, _)
\* for item in val: an item without find() raises AttributeError, an item
\* holding the substring is skipped, any other item is appended to sane_val
FilterItems(items, sane_val) ==
    IF items = <<>> THEN Cast("none", PyList(sane_val))
    ELSE IF items[1].t # "str" THEN Cast("AttributeError", PyNone)
    ELSE IF Unsafe(items[1].s) THEN FilterItems(Tail(items), sane_val)
    ELSE FilterItems(Tail(items), Append(sane_val, items[1]))

RECURSIVE SanitizeFrom(_, _, _)
\* the loop over roster_vals from entry i on, sane_kwargs being sane
SanitizeFrom(kwargs, i, sane) ==
    IF i > Len(roster_vals) THEN Returned(sane)
    ELSE LET name == roster_vals[i][1]
             kind == roster_vals[i][2]
         IN IF name \notin DOMAIN kwargs THEN SanitizeFrom(kwargs, i + 1, sane)
            ELSE LET c == Coerce(kind, kwargs[name])
                 IN IF c.err = "ValueError" THEN SanitizeFrom(kwargs, i + 1, sane)
                    ELSE IF c.err # "none" THEN Raised(c.err)
                    ELSE IF kind \in {"bool", "int"}
                         THEN SanitizeFrom(kwargs, i + 1, Put(sane, name, c.val))
                    ELSE IF kind = "str"
                         THEN IF Unsafe(c.val.s) THEN SanitizeFrom(kwargs, i + 1, sane)
                              ELSE SanitizeFrom(kwargs, i + 1, Put(sane, name, c.val))
                    ELSE LET f == FilterItems(c.val.l, <<>>)
                         IN IF f.err # "none" THEN Raised(f.err)
                            ELSE SanitizeFrom(kwargs, i + 1, Put(sane, name, f.val))

sanitize_kwargs_passthrough(kwargs) == SanitizeFrom(kwargs, 1, kwargs)
sanitize_kwargs(kwargs) == SanitizeFrom(kwargs, 1, EmptyMap)

(* ---------------------------------------------------------------------- *)
(* The heap: the mutable dicts of the program, by address                  *)
(* ---------------------------------------------------------------------- *)
s_web1 == <<"w","e","b","1">>
s_web2 == <<"w","e","b","2">>
s_test_ping == <<"t","e","s","t",".","p","i","n","g">>
s_glob == <<"g","l","o","b">>
s_list == <<"l","i","s","t">>
s_a == <<"a">>
s_v == <<"v">>
s_base == <<"b","a","s","e">>

NoHandle == 0 - 1

Get(m, k, default) == IF k \in DOMAIN m THEN m[k] ELSE default

RefsOf(h, a) == {h[a][k].n : k \in {x \in DOMAIN h[a] : h[a][x].t = "ref"}}
RECURSIVE ReachFrom(_, _)
\* the addresses reachable from those of S
ReachFrom(h, S) ==
    LET N == S \cup UNION {RefsOf(h, a) : a \in S}
    IN IF N = S THEN S ELSE ReachFrom(h, N)

\* the i-th (from 0) smallest address not in use
NthFree(h, i) ==
    CHOOSE a \in 0..(Cardinality(DOMAIN h) + i) :
        a \notin DOMAIN h /\ Cardinality((0..a) \ DOMAIN h) = i + 1

RECURSIVE Deref(_, _)
\* the structural value of the dict at address a, nested dicts included
Deref(h, a) ==
    [k \in DOMAIN h[a] |-> IF h[a][k].t = "ref" THEN PyDict(Deref(h, h[a][k].n)) ELSE h[a][k]]

\* copy.copy: a new dict with the same values, nested dicts shared
ShallowCopy(h, a) ==
    LET new == NthFree(h, 0)
    IN [heap |-> [x \in DOMAIN h \cup {new} |-> IF x = new THEN h[a] ELSE h[x]],
        addr |-> new]

\* copy.deepcopy: a new dict for the one at a and for every dict it reaches
DeepCopy(h, a) ==
    LET R == ReachFrom(h, {a})
        m == [r \in R |-> NthFree(h, Cardinality({x \in R : x < r}))]
        orig(x) == CHOOSE r \in R : m[r] = x
        copyOf(r) == [k \in DOMAIN h[r] |->
                        IF h[r][k].t = "ref" THEN PyRef(m[h[r][k].n]) ELSE h[r][k]]
    IN [heap |-> [x \in DOMAIN h \cup {m[r] : r \in R} |->
                    IF x \in DOMAIN h THEN h[x] ELSE copyOf(orig(x))],
        addr |-> m[a]]

(* ---------------------------------------------------------------------- *)
(* salt.utils.args.condition_input                                         *)
(* ---------------------------------------------------------------------- *)
\* one ordered argument vector: the positional values, then the keyword
\* arguments (if any) as one trailing dict marked __kwarg__
condition_input(arg, kwarg) ==
    IF kwarg.t = "dict" /\ kwarg.d # <<>>
    THEN arg.l \o <<PyDict(Put(kwarg.d, "__kwarg__", PyBool(TRUE)))>>
    ELSE arg.l

(* ---------------------------------------------------------------------- *)
(* SSHClient._prep_ssh                                                     *)
(* ---------------------------------------------------------------------- *)
\* `if timeout:`
Truthy(v) == CastBool(v).val.n = 1

\* what a method leaves behind: the exception raised (or "none"), the heap,
\* and the job descriptor of the engine handle it created (or NoHandle)
Outcome(raised, h, ssh) == [raised |-> raised, heap |-> h, ssh |-> ssh]

TimeoutIfNotNone(opts, timeout) ==
    IF timeout.t # "none" THEN Put(opts, "timeout", timeout) ELSE opts
\* if timeout: opts['timeout'] = timeout
SetTimeout(opts, timeout) ==
    IF Truthy(timeout) THEN Put(opts, "timeout", timeout) ELSE opts

\* a: the arguments tgt, fun, arg, timeout, expr_form, kwarg and **kwargs
_prep_ssh(h, self_opts_addr, a) ==
    LET kwargs == sanitize_kwargs(a.kwargs)
    IN IF kwargs.raised # "none" THEN Outcome(kwargs.raised, h, NoHandle)
       ELSE LET c == DeepCopy(h, self_opts_addr)
                o1 == Update(c.heap[c.addr], kwargs.ret)
                o2 == SetTimeout(o1, a.timeout)
                arg == condition_input(a.arg, a.kwarg)
                o3 == Put(o2, "argv", PyList(<<a.fun>> \o arg))
                o4 == Put(o3, "selected_target_option", a.expr_form)
                o5 == Put(o4, "tgt", a.tgt)
                o6 == Put(o5, "arg", PyList(arg))
            IN Outcome("none", [c.heap EXCEPT ![c.addr] = o6], c.addr)

\* jid=kwargs.get('jid', None), of the **kwargs the caller passed
JidOf(kwargs) == Get(kwargs, "jid", PyNone)

(* ---------------------------------------------------------------------- *)
(* SSHClient.cmd_sync, SSHClient.cmd_async                                 *)
(* ---------------------------------------------------------------------- *)
Args(tgt, fun, arg, timeout, expr_form, kwarg, kwargs) ==
    [tgt |-> tgt, fun |-> fun, arg |-> arg, timeout |-> timeout,
     expr_form |-> expr_form, kwarg |-> kwarg, kwargs |-> kwargs]
NoArgs == Args(PyNone, PyNone, PyNone, PyNone, PyNone, PyNone, EmptyMap)

Ignore == {"tgt", "fun", "arg", "timeout", "expr_form", "kwarg"}

\* the arguments cmd_sync calls cmd with
SyncArgs(low) ==
    Args(low["tgt"], low["fun"], Get(low, "arg", PyList(<<>>)), Get(low, "timeout", PyNone),
         Get(low, "expr_form", PyNone), Get(low, "kwarg", PyNone), Without(low, Ignore))

cmd_async_via_sync(h, self_opts_addr, low, timeout) == _prep_ssh(h, self_opts_addr, SyncArgs(low))
\* raise SaltClientError
cmd_async(h, self_opts_addr, low, timeout) == Outcome("SaltClientError", h, NoHandle)

MergeReplace(final, ret) == ret
\* final.update(ret)
Merge(final, ret) == Update(final, ret)

(* ---------------------------------------------------------------------- *)
(* Inputs of the sanitizer                                                 *)
(* ---------------------------------------------------------------------- *)
MaxKeys == 1

\* override keys a caller may pass: the allow-list and two names outside it
OverrideKeys == AllowList \cup {"evil_key", "jid"}
OverrideValues == {
    PyNone, PyBool(TRUE), PyBool(FALSE), PyInt(0), PyInt(22),
    PyStr(s_empty), PyStr(s_22), PyStr(s_abc), PyStr(s_False),
    PyStr(s_ProxyEq), PyStr(s_oProxy),
    PyList(<<>>),
    PyList(<<PyStr(s_root)>>),
    PyList(<<PyStr(s_oProxy), PyStr(s_oCompression)>>),
    PyList(<<PyStr(ProxyCommand), PyStr(s_ProxyEq), PyStr(s_abc)>>),
    PyList(<<PyStr(s_abc), PyInt(5)>>) }

\* the override map of the scenario, and maps with a key after a malformed one
ScenarioMap ==
    [k \in {"ssh_port", "ssh_options", "evil_key"} |->
        CASE k = "ssh_port" -> PyStr(s_22)
          [] k = "ssh_options" -> PyList(<<PyStr(s_oProxy), PyStr(s_oCompression)>>)
          [] k = "evil_key" -> PyStr(s_x)]
MalformedMaps == {
    [k \in {"host", "ssh_port", "rosters"} |->
        CASE k = "host" -> PyStr(s_root)
          [] k = "ssh_port" -> PyStr(s_abc)
          [] k = "rosters" -> PyStr(s_abc)],
    [k \in {"host", "ssh_port", "raw_shell"} |->
        CASE k = "host" -> PyStr(s_oProxy)
          [] k = "ssh_port" -> PyNone
          [] k = "raw_shell" -> PyStr(s_False)] }

KeySets == {K \in SUBSET OverrideKeys : Cardinality(K) <= MaxKeys}
OverrideMaps == UNION {[K -> OverrideValues] : K \in KeySets} \cup {ScenarioMap} \cup MalformedMaps

(* ---------------------------------------------------------------------- *)
(* Inputs of the client's methods                                          *)
(* ---------------------------------------------------------------------- *)
MaxJobRecords == 1
MaxRecords == 2

Threads == {1, 2}
TargetIds == {"web1", "web2"}

Map1(k, v) == [x \in {k} |-> v]
UserRoot == Map1("ssh_user", PyStr(s_root))
CallOverrides == {
    UserRoot,
    Put(UserRoot, "evil_key", PyStr(s_x)),
    Put(UserRoot, "jid", PyStr(s_j1)),
    ScenarioMap,
    Map1("ssh_port", PyNone) }

KwargDict == PyDict(Map1("k", PyStr(s_v)))
\* cmd's own defaults: arg=(), timeout=None, expr_form='glob', kwarg=None
\* (a tuple and a list of the same items are one value here: condition_input
\* turns either into a list)
DefaultArgs ==
    Args(PyStr(s_web1), PyStr(s_test_ping), PyList(<<>>), PyNone, PyStr(s_glob), PyNone, EmptyMap)
\* the default call, and the calls that differ from it in one argument
CallArgs ==
    {DefaultArgs,
     [DefaultArgs EXCEPT !.arg = PyList(<<PyStr(s_a)>>)],
     [DefaultArgs EXCEPT !.kwarg = KwargDict],
     [DefaultArgs EXCEPT !.timeout = PyInt(0)],
     [DefaultArgs EXCEPT !.timeout = PyInt(5)],
     [DefaultArgs EXCEPT !.expr_form = PyStr(s_list)]}
    \cup {[DefaultArgs EXCEPT !.kwargs = o] : o \in CallOverrides}
IterArgs ==
    {DefaultArgs}
    \cup {[DefaultArgs EXCEPT !.kwargs = o] :
            o \in {UserRoot, Put(UserRoot, "evil_key", PyStr(s_x)), Put(UserRoot, "jid", PyStr(s_j1))}}

\* descriptor maps for cmd_sync: tgt and fun, then one more field or all
LowBase == [k \in {"tgt", "fun"} |-> IF k = "tgt" THEN PyStr(s_web1) ELSE PyStr(s_test_ping)]
LowFull ==
    Update(LowBase,
           [k \in {"arg", "timeout", "expr_form", "kwarg"} |->
               CASE k = "arg" -> PyList(<<PyStr(s_a)>>)
                 [] k = "timeout" -> PyInt(5)
                 [] k = "expr_form" -> PyStr(s_glob)
                 [] k = "kwarg" -> KwargDict])
Lows ==
    {LowBase, LowFull,
     Put(LowBase, "arg", PyList(<<PyStr(s_a)>>)),
     Put(LowBase, "kwarg", KwargDict)}
    \cup {Put(LowBase, "timeout", v) : v \in {PyInt(0), PyInt(5)}}
    \cup {Put(LowBase, "expr_form", v) : v \in {PyStr(s_glob), PyStr(s_list)}}
    \cup {Update(LowBase, o) : o \in CallOverrides}

\* the default call alone, for the runs that look at the engine's records
RunArgs == {DefaultArgs}
RunLows == {LowBase}

\* base configurations a client is constructed with (mopts)
NestedBase == Map1("sudo", PyBool(FALSE))
MoptsNoTimeout ==
    [k \in {"ssh_user", "roster_defaults"} |->
        IF k = "ssh_user" THEN PyStr(s_base) ELSE PyRef(1)]
\* the arguments of __init__: mopts and disable_custom_roster
Constructions ==
    {<<MoptsNoTimeout, TRUE>>, <<Put(MoptsNoTimeout, "timeout", PyInt(60)), FALSE>>}

(* ---------------------------------------------------------------------- *)
(* State                                                                   *)
(* ---------------------------------------------------------------------- *)
VARIABLES
    heap,        \* the mutable dicts: address -> dict
    self_opts,   \* self.opts: the address of the base configuration
    constructed, \* the structural value of self.opts right after __init__
    th,          \* per thread: the call it is in, the job descriptor (ssh) and the
                 \* state of the engine it created, the records pulled so far
    san_pc,      \* "off", "start", "once", "twice": runs of sanitize_kwargs
    san_in,      \* the override map given to sanitize_kwargs
    san_out,     \* the outcome of sanitize_kwargs(san_in)
    san_again    \* the outcome of sanitize_kwargs on the map it returned

client_vars == <<heap, self_opts, constructed, th>>
san_vars == <<san_pc, san_in, san_out, san_again>>
vars == <<heap, self_opts, constructed, th, san_pc, san_in, san_out, san_again>>

\* a thread outside any call
IdleThread ==
    [pc |-> "idle", op |-> "none", a |-> NoArgs, low |-> EmptyMap, prep |-> NoArgs,
     ssh |-> NoHandle, engine |-> "none", jid |-> PyNone, yielded |-> <<>>,
     final |-> EmptyMap, out |-> Returned(EmptyMap)]

\* SSHClient.__init__(mopts=mopts, disable_custom_roster=disable)
Construct(mopts, disable) ==
    /\ heap = [x \in {0, 1} |->
                IF x = 0 THEN Put(mopts, "__disable_custom_roster", PyBool(disable))
                ELSE NestedBase]
    /\ self_opts = 0
    /\ constructed = Put([k \in DOMAIN mopts |->
                            IF mopts[k].t = "ref" THEN PyDict(NestedBase) ELSE mopts[k]],
                         "__disable_custom_roster", PyBool(disable))
    /\ th = [t \in Threads |-> IdleThread]

SanOff ==
    /\ san_pc = "off"
    /\ san_in = EmptyMap
    /\ san_out = Returned(EmptyMap)
    /\ san_again = Returned(EmptyMap)

Init ==
    /\ \E c \in Constructions : Construct(c[1], c[2])
    /\ SanOff

(* ---------------------------------------------------------------------- *)
(* The client's methods, one call per thread at a time                     *)
(* ---------------------------------------------------------------------- *)
Aggregating == {"cmd", "cmd_sync", "cmd_async"}

\* the thread once the call has built its job (or raised)
Started(op, a, low, prep, o, jid) ==
    [pc |-> IF o.raised # "none" THEN "done" ELSE IF op = "_prep_ssh" THEN "held" ELSE "iter",
     op |-> op, a |-> a, low |-> low, prep |-> prep, ssh |-> o.ssh,
     engine |-> IF o.raised # "none" THEN "none" ELSE "live",
     jid |-> IF o.raised # "none" THEN PyNone ELSE jid,
     yielded |-> <<>>, final |-> EmptyMap,
     out |-> IF o.raised # "none" THEN Raised(o.raised) ELSE Returned(EmptyMap)]

\* ssh = client._prep_ssh(tgt, fun, arg, timeout, expr_form, kwarg, **kwargs)
PrepSsh(t, a) ==
    /\ th[t].pc = "idle"
    /\ LET o == _prep_ssh(heap, self_opts, a)
       IN /\ heap' = o.heap
          /\ th' = [th EXCEPT ![t] = Started("_prep_ssh", a, EmptyMap, a, o, PyNone)]
    /\ UNCHANGED <<self_opts, constructed, san_vars>>

\* cmd_iter up to its first pull from ssh.run_iter(jid=kwargs.get('jid', None))
CmdIter(t, a) ==
    /\ th[t].pc = "idle"
    /\ LET o == _prep_ssh(heap, self_opts, a)
       IN /\ heap' = o.heap
          /\ th' = [th EXCEPT ![t] = Started("cmd_iter", a, EmptyMap, a, o, JidOf(a.kwargs))]
    /\ UNCHANGED <<self_opts, constructed, san_vars>>

\* cmd up to its first pull from ssh.run_iter(jid=kwargs.get('jid', None))
Cmd(t, a) ==
    /\ th[t].pc = "idle"
    /\ LET o == _prep_ssh(heap, self_opts, a)
       IN /\ heap' = o.heap
          /\ th' = [th EXCEPT ![t] = Started("cmd", a, EmptyMap, a, o, JidOf(a.kwargs))]
    /\ UNCHANGED <<self_opts, constructed, san_vars>>

\* cmd_sync(low): cmd(low['tgt'], low['fun'], low.get('arg', []), ..., **kwargs)
CmdSync(t, low) ==
    /\ th[t].pc = "idle"
    /\ LET a == SyncArgs(low)
           o == _prep_ssh(heap, self_opts, a)
       IN /\ heap' = o.heap
          /\ th' = [th EXCEPT ![t] = Started("cmd_sync", NoArgs, low, a, o, JidOf(a.kwargs))]
    /\ UNCHANGED <<self_opts, constructed, san_vars>>

\* cmd_async(low, timeout)
CmdAsync(t, low, timeout) ==
    /\ th[t].pc = "idle"
    /\ LET o == cmd_async(heap, self_opts, low, timeout)
       IN /\ heap' = o.heap
          /\ th' = [th EXCEPT ![t] =
                      Started("cmd_async", [NoArgs EXCEPT !.timeout = timeout], low, NoArgs, o,
                              PyNone)]
    /\ UNCHANGED <<self_opts, constructed, san_vars>>

\* the engine yields the record of one target: cmd merges it into final,
\* cmd_iter yields it on
EngineYield(t, id, bound) ==
    /\ th[t].pc = "iter"
    /\ Len(th[t].yielded) < bound
    /\ LET ret == Map1(id, PyInt(Len(th[t].yielded) + 1))
       IN th' = [th EXCEPT ![t].yielded = Append(@, ret),
                           ![t].final = IF th[t].op \in Aggregating THEN Merge(@, ret) ELSE @]
    /\ UNCHANGED <<heap, self_opts, constructed, san_vars>>

\* the engine's sequence ends: cmd returns final, cmd_iter's generator ends
EngineExhausted(t) ==
    /\ th[t].pc = "iter"
    /\ th' = [th EXCEPT ![t].pc = "done", ![t].engine = "exhausted",
                        ![t].out = Returned(th[t].final)]
    /\ UNCHANGED <<heap, self_opts, constructed, san_vars>>

\* the holder of a job descriptor writes to it, at the top or in a nested dict
MutateJob(t, nested) ==
    /\ th[t].pc = "held"
    /\ LET d == heap[th[t].ssh]
       IN heap' = IF nested
                  THEN [heap EXCEPT ![d["roster_defaults"].n] = Put(@, "sudo", PyBool(TRUE))]
                  ELSE [heap EXCEPT ![th[t].ssh] = Put(@, "ssh_user", PyStr(s_x))]
    /\ th' = [th EXCEPT ![t].pc = "mutated"]
    /\ UNCHANGED <<self_opts, constructed, san_vars>>

\* the caller lets go of the call's result and of its engine handle
Drop(t) ==
    /\ th[t].pc \in {"held", "mutated", "done"}
    /\ th' = [th EXCEPT ![t] = IdleThread]
    /\ LET live == ReachFrom(heap, {self_opts} \cup
                       {th[u].ssh : u \in {x \in Threads \ {t} : th[x].ssh # NoHandle}})
       IN heap' = [x \in live |-> heap[x]]
    /\ UNCHANGED <<self_opts, constructed, san_vars>>

Next ==
    \E t \in Threads :
        \/ \E a \in CallArgs : PrepSsh(t, a)
        \/ \E a \in IterArgs : CmdIter(t, a)
        \/ \E a \in CallArgs : Cmd(t, a)
        \/ \E low \in Lows : CmdSync(t, low)
        \/ \E low \in {LowBase, Update(LowBase, UserRoot)}, timeout \in {PyNone, PyInt(5)} :
              CmdAsync(t, low, timeout)
        \/ \E id \in TargetIds : EngineYield(t, id, MaxJobRecords)
        \/ EngineExhausted(t)
        \/ \E nested \in BOOLEAN : MutateJob(t, nested)
        \/ Drop(t)

Spec == Init /\ [][Next]_vars

\* the same client, called with the default arguments only and served by an
\* engine that yields more records
NextRun ==
    \E t \in Threads :
        \/ \E a \in RunArgs : CmdIter(t, a)
        \/ \E a \in RunArgs : Cmd(t, a)
        \/ \E low \in RunLows : CmdSync(t, low)
        \/ \E id \in TargetIds : EngineYield(t, id, MaxRecords)
        \/ EngineExhausted(t)
        \/ Drop(t)

SpecRun == Init /\ [][NextRun]_vars

(* ---------------------------------------------------------------------- *)
(* The sanitizer on its own                                                *)
(* ---------------------------------------------------------------------- *)
InitSan ==
    /\ san_pc = "start"
    /\ san_in \in OverrideMaps
    /\ san_out = Returned(EmptyMap)
    /\ san_again = Returned(EmptyMap)
    /\ Construct(MoptsNoTimeout, FALSE)

Sanitize ==
    /\ san_pc = "start"
    /\ san_out' = sanitize_kwargs(san_in)
    /\ san_pc' = "once"
    /\ UNCHANGED <<san_in, san_again, client_vars>>

SanitizeAgain ==
    /\ san_pc = "once"
    /\ san_out.raised = "none"
    /\ san_again' = sanitize_kwargs(san_out.ret)
    /\ san_pc' = "twice"
    /\ UNCHANGED <<san_in, san_out, client_vars>>

NextSan == Sanitize \/ SanitizeAgain

SpecSan == InitSan /\ [][NextSan]_vars

(* ---------------------------------------------------------------------- *)
(* Claims about sanitize_kwargs                                            *)
(* ---------------------------------------------------------------------- *)
FifteenNames == {"host", "ssh_user", "ssh_passwd", "ssh_port", "ssh_sudo", "ssh_sudo_user",
                 "ssh_priv", "ssh_priv_passwd", "ssh_identities_only",
                 "ssh_remote_port_forwards", "ssh_options", "roster_file", "rosters",
                 "ignore_host_keys", "raw_shell"}
StringFields == {"host", "ssh_user", "ssh_passwd", "ssh_sudo_user", "ssh_priv",
                 "ssh_priv_passwd", "ssh_remote_port_forwards", "roster_file"}
ListFields == {"ssh_options", "rosters"}

HasProxyCommand(chars) ==
    \E i \in 1..Len(chars) : i + 11 <= Len(chars) /\ SubSeq(chars, i, i + 11) = ProxyCommand

SanReturned == san_pc \in {"once", "twice"} /\ san_out.raised = "none"

\* C1: every key of the map sanitize_kwargs returns is one of the fifteen
\* allow-listed names and a key of the input; no other key appears.
C1_AllowListClosure ==
    SanReturned => \A k \in DOMAIN san_out.ret : k \in FifteenNames /\ k \in DOMAIN san_in

C1_Witness ==
    /\ SanReturned
    /\ "evil_key" \in DOMAIN san_in
    /\ "ssh_port" \in DOMAIN san_in
    /\ DOMAIN san_out.ret = {"ssh_port", "ssh_options"}

NonOffending(items) == SelectSeq(items, LAMBDA e : ~HasProxyCommand(e.s))

\* C2: in the map sanitize_kwargs returns no string field and no item of a
\* list field holds 'ProxyCommand'; a string field whose cast value holds it is
\* dropped, a list field stays under its key with exactly the other items, in
\* their order.
C2_NoProxyCommand ==
    SanReturned =>
        /\ \A k \in DOMAIN san_out.ret :
              /\ san_out.ret[k].t = "str" => ~HasProxyCommand(san_out.ret[k].s)
              /\ san_out.ret[k].t = "list" =>
                    \A i \in 1..Len(san_out.ret[k].l) : ~HasProxyCommand(san_out.ret[k].l[i].s)
        /\ \A k \in StringFields \cap DOMAIN san_in :
              HasProxyCommand(CastStr(san_in[k]).val.s) => k \notin DOMAIN san_out.ret
        /\ \A k \in ListFields \cap DOMAIN san_in :
              /\ k \in DOMAIN san_out.ret
              /\ san_out.ret[k] = PyList(NonOffending(CastList(san_in[k]).val.l))

C2_Witness ==
    /\ SanReturned
    /\ san_in = ScenarioMap
    /\ san_out.ret = [k \in {"ssh_port", "ssh_options"} |->
                        IF k = "ssh_port" THEN PyInt(22) ELSE PyList(<<PyStr(s_oCompression)>>)]

\* C3: sanitize_kwargs never fails: whatever the override map holds, it
\* returns a map and raises nothing.
C3_NeverFails == san_pc \in {"once", "twice"} => san_out.raised = "none"

\* C9: sanitize_kwargs is idempotent: sanitizing the map it returned gives
\* that same map.
C9_Idempotent == san_pc = "twice" => san_again = san_out

C9_Witness ==
    /\ san_pc = "twice"
    /\ "ssh_port" \in DOMAIN san_in
    /\ san_in["ssh_port"] = PyStr(s_22)
    /\ san_again.ret["ssh_port"] = PyInt(22)

(* ---------------------------------------------------------------------- *)
(* Claims about the client's methods                                       *)
(* ---------------------------------------------------------------------- *)
HasJob(t) == th[t].ssh # NoHandle
Job(t) == Deref(heap, th[t].ssh)

\* C4: whatever calls have run or are running, self.opts is structurally
\* equal to its value right after construction, also after a job descriptor
\* was written to (at the top or in a nested dict), and a job that was not
\* written to sees none of another job's changes.
C4_BaseConfigUnchanged ==
    /\ Deref(heap, self_opts) = constructed
    /\ \A t \in Threads :
          HasJob(t) /\ th[t].pc # "mutated" =>
              Job(t)["roster_defaults"] = constructed["roster_defaults"]

C4_Witness ==
    \E t, u \in Threads :
        /\ th[t].pc = "mutated"
        /\ Job(t)["roster_defaults"] = PyDict(Map1("sudo", PyBool(TRUE)))
        /\ th[u].pc = "iter"
        /\ th[u].op = "cmd_sync"

\* the call of cmd that the descriptor map stands for, cmd's own defaults
\* (arg=(), timeout=None, expr_form='glob', kwarg=None) for the fields omitted
CmdCallFor(low) ==
    Args(low["tgt"], low["fun"], Get(low, "arg", PyList(<<>>)), Get(low, "timeout", PyNone),
         Get(low, "expr_form", PyStr(s_glob)), Get(low, "kwarg", PyNone),
         Without(low, {"tgt", "fun", "arg", "timeout", "expr_form", "kwarg"}))

\* C5: cmd_sync(low) hands the engine the same job descriptor as cmd called
\* with low's target, function and overrides and cmd's defaults for the
\* fields low omits.
C5_SyncSameDescriptorAsCmd ==
    \A t, u \in Threads :
        (/\ th[t].op = "cmd_sync" /\ HasJob(t)
         /\ th[u].op = "cmd" /\ HasJob(u)
         /\ th[u].a = CmdCallFor(th[t].low))
        => Job(t) = Job(u)

AgreeOnAllowListed(k1, k2) ==
    \A k \in FifteenNames :
        /\ k \in DOMAIN k1 <=> k \in DOMAIN k2
        /\ k \in DOMAIN k1 => k1[k] = k2[k]

\* two running calls of the same method that differ at most in override keys
\* outside the allow-list
SameButUnlisted(t, u) ==
    /\ th[t].op \in {"cmd", "cmd_iter"} /\ th[u].op = th[t].op
    /\ HasJob(t) /\ HasJob(u)
    /\ th[t].a.tgt = th[u].a.tgt /\ th[t].a.fun = th[u].a.fun
    /\ th[t].a.arg = th[u].a.arg /\ th[t].a.timeout = th[u].a.timeout
    /\ th[t].a.expr_form = th[u].a.expr_form /\ th[t].a.kwarg = th[u].a.kwarg
    /\ AgreeOnAllowListed(th[t].a.kwargs, th[u].a.kwargs)

\* C6 (as stated): two calls that differ only in override keys outside the
\* allow-list give the engine the same job descriptor and the same run_iter
\* invocation.
C6_UnlistedKeysHaveNoInfluence ==
    \A t, u \in Threads :
        SameButUnlisted(t, u) => Job(t) = Job(u) /\ th[t].jid = th[u].jid

\* C6 (amended): two such calls give the engine the same job descriptor, and
\* the same run_iter invocation when they also agree on the override 'jid'.
C6_OnlyJidHasInfluence ==
    \A t, u \in Threads :
        SameButUnlisted(t, u) =>
            /\ Job(t) = Job(u)
            /\ Get(th[t].a.kwargs, "jid", PyNone) = Get(th[u].a.kwargs, "jid", PyNone)
                  => th[t].jid = th[u].jid

C6_Witness ==
    \E t, u \in Threads :
        /\ SameButUnlisted(t, u)
        /\ th[t].op = "cmd"
        /\ "evil_key" \in DOMAIN th[t].a.kwargs
        /\ "evil_key" \notin DOMAIN th[u].a.kwargs
        /\ "ssh_user" \in DOMAIN th[u].a.kwargs

\* C8: cmd_async ends with SaltClientError whatever it is given: it returns
\* no mapping, builds no job descriptor, creates no engine and leaves the
\* base configuration (and every other dict) as it was.
C8_AsyncNotImplemented ==
    [][\A t \in Threads :
          (th[t].pc = "idle" /\ th'[t].op = "cmd_async") =>
              /\ th'[t].pc = "done"
              /\ th'[t].out = Raised("SaltClientError")
              /\ th'[t].ssh = NoHandle
              /\ th'[t].engine = "none"
              /\ heap' = heap
              /\ self_opts' = self_opts]_vars

C8_Witness ==
    \E t \in Threads :
        /\ th[t].op = "cmd_async"
        /\ th[t].low = Update(LowBase, UserRoot)
        /\ th[t].out.raised = "SaltClientError"

CallFields == {"tgt", "arg", "argv", "selected_target_option"}
TimeoutGiven(timeout) == timeout.t # "none" /\ timeout # PyInt(0)

\* C10: the job descriptor _prep_ssh hands to the engine is the base
\* configuration with each sanitized override in place of the whole value of
\* its key and the call fields on top: tgt, selected_target_option, arg (the
\* conditioned vector), argv (the function, then that vector), and timeout,
\* the call's when that is neither zero nor None and else the base's, if any.
C10_JobDescriptor ==
    \A t \in Threads :
        HasJob(t) /\ th[t].pc # "mutated" =>
            LET D == Job(t)
                p == th[t].prep
                S == sanitize_kwargs(p.kwargs).ret
                vec == condition_input(p.arg, p.kwarg)
            IN /\ DOMAIN D = DOMAIN constructed \cup DOMAIN S \cup CallFields
                                \cup (IF TimeoutGiven(p.timeout) THEN {"timeout"} ELSE {})
               /\ D["tgt"] = p.tgt
               /\ D["selected_target_option"] = p.expr_form
               /\ D["arg"] = PyList(vec)
               /\ D["argv"] = PyList(<<p.fun>> \o vec)
               /\ TimeoutGiven(p.timeout) => D["timeout"] = p.timeout
               /\ ~TimeoutGiven(p.timeout) /\ "timeout" \in DOMAIN D =>
                      D["timeout"] = constructed["timeout"]
               /\ \A k \in DOMAIN D \ (CallFields \cup {"timeout"}) :
                      D[k] = IF k \in DOMAIN S THEN S[k] ELSE constructed[k]

C10_Witness ==
    \E t \in Threads :
        /\ HasJob(t)
        /\ th[t].prep.timeout = PyInt(0)
        /\ "timeout" \in DOMAIN Job(t)
        /\ Job(t)["timeout"] = PyInt(60)

(* ---------------------------------------------------------------------- *)
(* Claims about the records cmd merges                                     *)
(* ---------------------------------------------------------------------- *)
IdOf(ret) == CHOOSE id \in DOMAIN ret : TRUE
IdsOf(records) == {IdOf(records[i]) : i \in 1..Len(records)}
LastOf(records, id) ==
    CHOOSE i \in 1..Len(records) :
        /\ IdOf(records[i]) = id
        /\ \A j \in (i + 1)..Len(records) : IdOf(records[j]) # id

\* C7: cmd returns only once the engine's sequence is exhausted, and returns
\* the left-to-right merge of the records: one entry per distinct target id,
\* holding the last record of that id; as many entries as records when the
\* ids are distinct, fewer when an id repeats.
C7_CmdMergesRecords ==
    \A t \in Threads :
        th[t].op \in {"cmd", "cmd_sync"} /\ th[t].pc = "done" /\ th[t].out.raised = "none" =>
            LET recs == th[t].yielded
                final == th[t].out.ret
            IN /\ th[t].engine = "exhausted"
               /\ DOMAIN final = IdsOf(recs)
               /\ \A id \in DOMAIN final : final[id] = recs[LastOf(recs, id)][id]
               /\ Cardinality(IdsOf(recs)) = Len(recs) => Cardinality(DOMAIN final) = Len(recs)
               /\ Cardinality(IdsOf(recs)) < Len(recs) => Cardinality(DOMAIN final) < Len(recs)

C7_Witness ==
    \E t \in Threads :
        /\ th[t].op = "cmd" /\ th[t].pc = "done"
        /\ Len(th[t].yielded) = 2
        /\ th[t].out.ret = Map1("web1", PyInt(2))

====
